---- MODULE Spec2Model ----
(***************************************************************************)
(* Model of the job-wait engine (mixcli/command/job/wait.py, status.py),   *)
(* the concurrent model-build wait (mixcli/command/project/build.py) and   *)
(* the auth token store (mixcli/util/auth).                                *)
(*                                                                         *)
(* Python values are represented as follows:                               *)
(*   Optional[int]   the empty set for None, {n} for the integer n         *)
(*   Optional[str]   the empty set for None, {s} for the string s          *)
(*   a job status response / a raised exception: records of strings        *)
(***************************************************************************)
EXTENDS Integers, Sequences, FiniteSets, TLC

VARIABLES
    jobs,          \* the labels of the waits of this run
    args,          \* job_wait's keyword arguments, per wait
    server,        \* what the server answers to the k-th status request of a job
    pc,            \* position of each job_wait call
    time_waited,   \* job_wait's local time_waited
    timeout,       \* job_wait's local timeout (after the default is applied)
    json_result,   \* OptJsonResult._json_result
    polls,         \* number of check_job_status calls made
    sleeps,        \* number of time.sleep calls made
    outcome,       \* what job_wait returned or raised
    \* wait_for_model_build_jobs (project/build.py), run by run_coro_sync
    ready,             \* the event loop's queue of tasks ready to be stepped
    running,           \* the task the event loop is stepping, None between steps
    bpc,               \* position of each build_job_wait task
    result_status,     \* build_job_wait's local result_status
    lock,              \* the asyncio.Lock: None when free, else {its holder}
    waiters,           \* the tasks suspended in Lock.acquire, in arrival order
    model_job_result,  \* the shared result map
    waited,            \* what wait_for_model_build_jobs returned or raised
    \* MixApiAuthHandler (util/auth), a Python str being a sequence of characters
    _token_str,        \* Optional[str]
    _token_file,       \* Optional[str]
    _client_cred,      \* Optional[MixApiClientCred]
    _client_cred_file, \* Optional[str]
    _token_clientauth, \* Optional[MixJsonToken]
    now,               \* datetime.datetime.now(), in seconds
    last,              \* the last operation on the handler: arguments and result
    \* dlg_import (command/dlg/dimport.py)
    dimport,           \* its arguments, the import response, its position and result
    \* ScriptRunner.run_script (command/run/data.py)
    runner,            \* the command list, the position in it, the commands run, the result
    \* cmd_job_wait (command/job/wait.py)
    cmdwait            \* its keyword arguments, its position and result

waitVars == <<jobs, args, server, pc, time_waited, timeout, json_result, polls, sleeps, outcome>>

manyVars == <<ready, running, bpc, result_status, lock, waiters, model_job_result, waited>>

authVars == <<_token_str, _token_file, _client_cred, _client_cred_file, _token_clientauth, now, last>>

cmdVars == <<dimport, runner, cmdwait>>

vars == <<waitVars, manyVars, authVars, cmdVars>>

----------------------------------------------------------------------------
(* Program constants *)

JOB_STATUS_CHK_INTVL == 5
DEFAULT_JOB_WAIT_TIMEOUT_SEC == 10 * 60
JOB_STATUS_COMPLETED == "completed"
JOB_STATUS_FAILED == "failed"
JOB_STATUS_SUBMITTED == "submitted"

(* Bounds *)

\* a job answers a pending status to at most this many status requests
MaxPending == 4
\* a wait makes at most this many status requests (cuts infinite waits)
MaxPolls == 124
\* wait_for_model_build_jobs is given at most this many build jobs
MaxJobs == 2
\* a build job answers a pending status to at most this many status requests
MaxPendingMany == 2
\* the clock is observed every TickStep seconds, up to MaxNow
TickStep == 280
MaxNow == 1200
\* a token file holds a token text of at most this many characters
MaxFileLen == 3
\* a script holds at most this many command lines
MaxCmds == 3

----------------------------------------------------------------------------
(* Values *)

None == {}

\* status literals a server may send
Statuses == {"submitted", "SUBMITTED", "completed", "COMPLETED", "failed", "Failed", "running"}

\* str.lower() on the status literals
Lower(s) ==
    CASE s = "SUBMITTED" -> "submitted"
      [] s = "COMPLETED" -> "completed"
      [] s = "Failed" -> "failed"
      [] s = "Unauthorized" -> "unauthorized"
      [] OTHER -> s

\* a job meta with a status field
Meta(s) == [kind |-> "meta", status |-> s, exc |-> ""]
\* a job meta (or a payload) without the status field
NoStatusMeta == [kind |-> "nostatus", status |-> "", exc |-> ""]
\* no payload: pyreq_check_job_status returns None
NoPayload == [kind |-> "none", status |-> "", exc |-> ""]
\* the request raises: requests.HTTPError (raise_for_status), RuntimeError
\* (the request could not be run), MixApiAuthTokenExpirationError
Raises(e) == [kind |-> "raise", status |-> "", exc |-> e]

PollErrors == {"HTTPError", "RuntimeError", "MixApiAuthTokenExpirationError"}

Responses == {Meta(s) : s \in Statuses} \cup {NoStatusMeta, NoPayload}
                \cup {Raises(e) : e \in PollErrors}

\* the answer of pyreq_check_job_status to the k-th request for job t
check_job_status(t, k) ==
    IF k <= server[t].nPending THEN Meta(server[t].pendingStatus) ELSE server[t].final

----------------------------------------------------------------------------
(* job/status.py predicates; "TypeError" and "ValueError" stand for the     *)
(* exception the call raises instead of returning a bool.                   *)

assert_job_meta_json(meta) ==
    CASE meta.kind = "none" -> "TypeError"
      [] meta.kind = "nostatus" -> "ValueError"
      [] OTHER -> "ok"

\* mutant: the comparison forgets str.lower()
job_succeeded_CaseSensitive(meta) == meta.status = JOB_STATUS_COMPLETED

job_succeeded(meta) == Lower(meta.status) = JOB_STATUS_COMPLETED

\* mutant: the comparison forgets str.lower()
job_failed_CaseSensitive(meta) == meta.status = JOB_STATUS_FAILED

job_failed(meta) == Lower(meta.status) = JOB_STATUS_FAILED

\* mutant: a failed job is not taken as ended
job_completed_OnlySucceeded(meta) == Lower(meta.status) = JOB_STATUS_COMPLETED

job_completed(meta) ==
    LET job_st == Lower(meta.status)
    IN  job_st = JOB_STATUS_COMPLETED \/ job_st = JOB_STATUS_FAILED

----------------------------------------------------------------------------
(* job_wait *)

NoOutcome == [kind |-> "running", value |-> "", exc |-> "", msg |-> "", snapshot |-> NoPayload, paired |-> FALSE]

\* mutant: the Json payload is returned whatever need_json
OptJsonResult_result_AlwaysPaired(t, rv) ==
    [kind |-> "return", value |-> rv, exc |-> "", msg |-> "",
     snapshot |-> json_result[t], paired |-> TRUE]

\* OptJsonResult.result
OptJsonResult_result(t, rv) ==
    [kind |-> "return", value |-> rv, exc |-> "", msg |-> "",
     snapshot |-> IF args[t].json_resp THEN json_result[t] ELSE NoPayload,
     paired |-> args[t].json_resp]

Raise(e, m) == [kind |-> "raise", value |-> "", exc |-> e, msg |-> m, snapshot |-> NoPayload, paired |-> FALSE]

\* mutant: the initial request is not wrapped in try/except
InitialPoll_Propagates(t) ==
    /\ pc[t] = "start"
    /\ LET resp == check_job_status(t, 1)
       IN  /\ polls' = [polls EXCEPT ![t] = 1]
           /\ IF resp.kind = "raise"
              THEN /\ outcome' = [outcome EXCEPT ![t] = Raise(resp.exc, "")]
                   /\ pc' = [pc EXCEPT ![t] = "done"]
                   /\ UNCHANGED <<json_result, time_waited, timeout>>
              ELSE /\ json_result' = [json_result EXCEPT ![t] = resp]
                   /\ time_waited' = [time_waited EXCEPT ![t] = 0]
                   /\ timeout' = [timeout EXCEPT ![t] =
                                    IF args[t].timeout = None \/ args[t].timeout = {0}
                                    THEN {DEFAULT_JOB_WAIT_TIMEOUT_SEC}
                                    ELSE args[t].timeout]
                   /\ pc' = [pc EXCEPT ![t] = "check"]
                   /\ UNCHANGED outcome
    /\ UNCHANGED <<jobs, args, server, sleeps>>

\* lines 72-82: the initial status request, then the default of timeout
InitialPoll(t) ==
    /\ pc[t] = "start"
    /\ LET resp == check_job_status(t, 1)
       IN  /\ polls' = [polls EXCEPT ![t] = 1]
           /\ IF resp.kind = "raise"
              THEN /\ outcome' = [outcome EXCEPT ![t] = Raise("ValueError", "Cannot find the job to wait for")]
                   /\ pc' = [pc EXCEPT ![t] = "done"]
                   /\ UNCHANGED <<json_result, time_waited, timeout>>
              ELSE /\ json_result' = [json_result EXCEPT ![t] = resp]
                   /\ time_waited' = [time_waited EXCEPT ![t] = 0]
                   /\ timeout' = [timeout EXCEPT ![t] =
                                    IF args[t].timeout = None \/ args[t].timeout = {0}
                                    THEN {DEFAULT_JOB_WAIT_TIMEOUT_SEC}
                                    ELSE args[t].timeout]
                   /\ pc' = [pc EXCEPT ![t] = "check"]
                   /\ UNCHANGED outcome
    /\ UNCHANGED <<jobs, args, server, sleeps>>

\* lines 116-128: after the loop
AfterLoop(t) ==
    IF job_succeeded(json_result[t])
    THEN OptJsonResult_result(t, "True")
    ELSE IF job_failed(json_result[t])
         THEN IF args[t].exc_if_failed
              THEN Raise("RuntimeError", "Mix job failed")
              ELSE OptJsonResult_result(t, "False")
         ELSE Raise("ValueError", "Unexpected job status enum from meta")

\* mutant: the test asks whether the next sleep would pass the timeout
TimedOut_BeforeExceeding(t) ==
    /\ ~args[t].infinite_wait
    /\ \E T \in timeout[t] : time_waited[t] + JOB_STATUS_CHK_INTVL > T

\* mutant: the test forgets infinite_wait
TimedOut_IgnoresInfinite(t) ==
    \E T \in timeout[t] : time_waited[t] >= T

\* mutant: the test is strict
TimedOut_Strict(t) ==
    /\ ~args[t].infinite_wait
    /\ \E T \in timeout[t] : time_waited[t] > T

\* lines 86-89: the timeout test of the loop
TimedOut(t) ==
    /\ ~args[t].infinite_wait
    /\ \E T \in timeout[t] : time_waited[t] >= T

\* lines 84-106: the loop condition, the timeout, and lines 116-128 on loop exit
LoopCheck(t) ==
    /\ pc[t] = "check"
    /\ LET valid == assert_job_meta_json(json_result[t])
       IN  IF valid # "ok"
           THEN /\ outcome' = [outcome EXCEPT ![t] =
                        Raise(valid, IF valid = "ValueError" THEN "Invalid job meta Json" ELSE "NoneType")]
                /\ pc' = [pc EXCEPT ![t] = "done"]
           ELSE IF job_completed(json_result[t])
                THEN /\ outcome' = [outcome EXCEPT ![t] = AfterLoop(t)]
                     /\ pc' = [pc EXCEPT ![t] = "done"]
                ELSE IF TimedOut(t)
                     THEN /\ outcome' = [outcome EXCEPT ![t] =
                                IF args[t].exc_if_timeout
                                THEN Raise("TimeoutError", "Time-out")
                                ELSE OptJsonResult_result(t, "None")]
                          /\ pc' = [pc EXCEPT ![t] = "done"]
                     ELSE /\ pc' = [pc EXCEPT ![t] = "sleep"]
                          /\ UNCHANGED outcome
    /\ UNCHANGED <<jobs, args, server, time_waited, timeout, json_result, polls, sleeps>>

\* mutant: the sleep is not added to the accumulated wait
Sleep_NoAccumulate(t) ==
    /\ pc[t] = "sleep"
    /\ polls[t] < MaxPolls
    /\ sleeps' = [sleeps EXCEPT ![t] = @ + 1]
    /\ pc' = [pc EXCEPT ![t] = "poll"]
    /\ UNCHANGED <<jobs, args, server, time_waited, timeout, json_result, polls, outcome>>

\* lines 108-111: time.sleep and the accumulated wait
Sleep(t) ==
    /\ pc[t] = "sleep"
    /\ polls[t] < MaxPolls
    /\ sleeps' = [sleeps EXCEPT ![t] = @ + 1]
    /\ time_waited' = [time_waited EXCEPT ![t] = @ + JOB_STATUS_CHK_INTVL]
    /\ pc' = [pc EXCEPT ![t] = "poll"]
    /\ UNCHANGED <<jobs, args, server, timeout, json_result, polls, outcome>>

\* line 114: the next status request; an exception leaves job_wait as it is
Poll(t) ==
    /\ pc[t] = "poll"
    /\ LET resp == check_job_status(t, polls[t] + 1)
       IN  /\ polls' = [polls EXCEPT ![t] = @ + 1]
           /\ IF resp.kind = "raise"
              THEN /\ outcome' = [outcome EXCEPT ![t] = Raise(resp.exc, "")]
                   /\ pc' = [pc EXCEPT ![t] = "done"]
                   /\ UNCHANGED json_result
              ELSE /\ json_result' = [json_result EXCEPT ![t] = resp]
                   /\ pc' = [pc EXCEPT ![t] = "check"]
                   /\ UNCHANGED outcome
    /\ UNCHANGED <<jobs, args, server, time_waited, timeout, sleeps>>

----------------------------------------------------------------------------
(* dlg_import is not running *)

NoImport ==
    [pc |-> "none", wait_for |-> FALSE,
     import_result |-> [kind |-> "none", has_status |-> FALSE, has_id |-> FALSE],
     result |-> [kind |-> "running", value |-> "", exc |-> ""]]

\* run_script is not running
NoRun ==
    [pc |-> "none", dry_run |-> FALSE, parses |-> TRUE, cmd_list |-> <<>>, next |-> 1,
     started |-> <<>>, result |-> [kind |-> "running", value |-> "", exc |-> ""]]

\* cmd_job_wait is not running
NoCmdWait ==
    [pc |-> "none", infinite |-> FALSE, timeout |-> None, err_on_failed |-> FALSE,
     result |-> [kind |-> "running", value |-> "", exc |-> ""]]

----------------------------------------------------------------------------
(* MixApiAuthHandler: the state after MixApiAuthHandler() without sources *)

NoCall ==
    [op |-> "none", args |-> <<None, None, None>>, exc |-> "", msg |-> "", value |-> None,
     exchanges |-> 0,
     resp |-> [kind |-> "none", status |-> 0,
               json |-> [empty |-> TRUE, access_token |-> None, scope |-> "", token_type |-> ""]],
     cred |-> None, cached |-> None, time |-> 0,
     probe |-> [kind |-> "none", code |-> 0, error_status |-> None],
     answer |-> [kind |-> "none", code |-> 0, error_status |-> None],
     file |-> None]

HandlerCreated ==
    /\ _token_str = None
    /\ _token_file = None
    /\ _client_cred = None
    /\ _client_cred_file = None
    /\ _token_clientauth = None
    /\ now = 0
    /\ last = NoCall

----------------------------------------------------------------------------
(* One job_wait call (job_wait_sync) *)

Timeouts == {None, {0}, {12}}

WaitArgs == [timeout : Timeouts, infinite_wait : BOOLEAN, exc_if_timeout : BOOLEAN,
             exc_if_failed : BOOLEAN, json_resp : BOOLEAN]

Scripts == [nPending : 0..MaxPending, pendingStatus : {"submitted", "SUBMITTED", "running"},
            final : Responses]

InitWait ==
    /\ jobs = {"job"}
    /\ args \in [jobs -> WaitArgs]
    /\ server \in [jobs -> Scripts]
    /\ pc = [t \in jobs |-> "start"]
    /\ time_waited = [t \in jobs |-> 0]
    /\ timeout = [t \in jobs |-> None]
    /\ json_result = [t \in jobs |-> NoPayload]
    /\ polls = [t \in jobs |-> 0]
    /\ sleeps = [t \in jobs |-> 0]
    /\ outcome = [t \in jobs |-> NoOutcome]
    /\ ready = <<>>
    /\ running = None
    /\ bpc = [t \in jobs |-> "none"]
    /\ result_status = [t \in jobs |-> ""]
    /\ lock = None
    /\ waiters = <<>>
    /\ model_job_result = [t \in jobs |-> ""]
    /\ waited = [state |-> "none", map |-> [t \in jobs |-> ""]]
    /\ HandlerCreated
    /\ dimport = NoImport
    /\ runner = NoRun
    /\ cmdwait = NoCmdWait

WaitInitialPoll == \E t \in jobs : InitialPoll(t) /\ UNCHANGED <<manyVars, authVars, cmdVars>>
WaitLoopCheck == \E t \in jobs : LoopCheck(t) /\ UNCHANGED <<manyVars, authVars, cmdVars>>
WaitSleep == \E t \in jobs : Sleep(t) /\ UNCHANGED <<manyVars, authVars, cmdVars>>
WaitPoll == \E t \in jobs : Poll(t) /\ UNCHANGED <<manyVars, authVars, cmdVars>>

NextWait ==
    \/ WaitInitialPoll
    \/ WaitLoopCheck
    \/ WaitSleep
    \/ WaitPoll

SpecWait == InitWait /\ [][NextWait]_vars

\* job_wait is run to its end by run_coro_sync (cmd_helper.py lines 69-75)
SpecWaitFair == SpecWait /\ WF_vars(NextWait)

----------------------------------------------------------------------------
(* wait_for_model_build_jobs: one build_job_wait task per build job, gathered *)
(* on the event loop of run_coro_sync. A task is stepped by the loop until it *)
(* suspends or ends; time.sleep and the status request do not suspend it.     *)

MDLS_TO_BUILD == {"asr", "nlu", "dialog"}

\* build.py:233: the arguments build_job_wait gives job_wait
BuildWaitArgs == [timeout |-> None, infinite_wait |-> TRUE, exc_if_timeout |-> TRUE,
                  exc_if_failed |-> FALSE, json_resp |-> FALSE]

BuildScripts == [nPending : 0..MaxPendingMany, pendingStatus : {"submitted"},
                 final : {Meta("completed"), Meta("Failed"), NoStatusMeta, Raises("HTTPError")}]

\* the orders in which a dict with the keys S can be iterated
Orders(S) == {q \in [1..Cardinality(S) -> S] : \A i, j \in 1..Cardinality(S) : i # j => q[i] # q[j]}

\* lines 249-262: the result map with its placeholders, the lock, one task per job
InitMany ==
    /\ jobs \in {S \in SUBSET MDLS_TO_BUILD : Cardinality(S) \in 1..MaxJobs}
    /\ args = [t \in jobs |-> BuildWaitArgs]
    /\ server \in [jobs -> BuildScripts]
    /\ pc = [t \in jobs |-> "start"]
    /\ time_waited = [t \in jobs |-> 0]
    /\ timeout = [t \in jobs |-> None]
    /\ json_result = [t \in jobs |-> NoPayload]
    /\ polls = [t \in jobs |-> 0]
    /\ sleeps = [t \in jobs |-> 0]
    /\ outcome = [t \in jobs |-> NoOutcome]
    /\ ready \in Orders(jobs)
    /\ running = None
    /\ bpc = [t \in jobs |-> "wait"]
    /\ result_status = [t \in jobs |-> ""]
    /\ lock = None
    /\ waiters = <<>>
    /\ model_job_result = [t \in jobs |-> ""]
    /\ waited = [state |-> "pending", map |-> [t \in jobs |-> ""]]
    /\ HandlerCreated
    /\ dimport = NoImport
    /\ runner = NoRun
    /\ cmdwait = NoCmdWait

\* the event loop takes the next ready task and steps it
RunNextTask ==
    /\ waited.state = "pending"
    /\ running = None
    /\ ready # <<>>
    /\ running' = {Head(ready)}
    /\ ready' = Tail(ready)
    /\ UNCHANGED <<cmdVars, authVars, waitVars, bpc, result_status, lock, waiters, model_job_result, waited>>

Stepping(t) == running = {t} /\ bpc[t] = "wait"

BuildInitialPoll == \E t \in jobs : Stepping(t) /\ InitialPoll(t) /\ UNCHANGED <<manyVars, authVars, cmdVars>>
BuildLoopCheck == \E t \in jobs : Stepping(t) /\ LoopCheck(t) /\ UNCHANGED <<manyVars, authVars, cmdVars>>
BuildSleep == \E t \in jobs : Stepping(t) /\ Sleep(t) /\ UNCHANGED <<manyVars, authVars, cmdVars>>
BuildPoll == \E t \in jobs : Stepping(t) /\ Poll(t) /\ UNCHANGED <<manyVars, authVars, cmdVars>>

\* line 233: job_wait returns into result_status, or its exception ends the task
JobWaitReturns ==
    \E t \in jobs :
        /\ Stepping(t)
        /\ pc[t] = "done"
        /\ IF outcome[t].kind = "raise"
           THEN /\ bpc' = [bpc EXCEPT ![t] = "raised"]
                /\ running' = None
                /\ UNCHANGED result_status
           ELSE /\ bpc' = [bpc EXCEPT ![t] = "update"]
                /\ result_status' = [result_status EXCEPT ![t] = outcome[t].value]
                /\ UNCHANGED running
        /\ UNCHANGED <<cmdVars, authVars, waitVars, ready, lock, waiters, model_job_result, waited>>

\* line 213: async with lock; a task that finds the lock taken suspends
AcquireLock ==
    \E t \in jobs :
        /\ running = {t}
        /\ bpc[t] = "update"
        /\ IF lock = None
           THEN /\ lock' = {t}
                /\ bpc' = [bpc EXCEPT ![t] = "locked"]
                /\ UNCHANGED <<running, waiters>>
           ELSE /\ running' = None
                /\ waiters' = Append(waiters, t)
                /\ UNCHANGED <<lock, bpc>>
        /\ UNCHANGED <<cmdVars, authVars, waitVars, ready, result_status, model_job_result, waited>>

\* lines 214, 234-235: the write of the task's own key
WriteResult ==
    \E t \in jobs :
        /\ running = {t}
        /\ bpc[t] = "locked"
        /\ model_job_result' = [model_job_result EXCEPT ![t] =
                IF result_status[t] = "True" THEN JOB_STATUS_COMPLETED ELSE JOB_STATUS_FAILED]
        /\ bpc' = [bpc EXCEPT ![t] = "written"]
        /\ UNCHANGED <<cmdVars, authVars, waitVars, ready, running, result_status, lock, waiters, waited>>

\* leaving async with: the lock is released and the task ends; a task that
\* waits for the lock becomes ready again
ReleaseLock ==
    \E t \in jobs :
        /\ running = {t}
        /\ bpc[t] = "written"
        /\ lock' = None
        /\ bpc' = [bpc EXCEPT ![t] = "done"]
        /\ running' = None
        /\ IF waiters = <<>>
           THEN UNCHANGED <<ready, waiters>>
           ELSE ready' = Append(ready, Head(waiters)) /\ waiters' = Tail(waiters)
        /\ UNCHANGED <<cmdVars, authVars, waitVars, result_status, model_job_result, waited>>

\* mutant: the gather returns as soon as one task is done
GatherReturns_FirstCompleted ==
    /\ waited.state = "pending"
    /\ running = None
    /\ \E t \in jobs : bpc[t] = "done"
    /\ waited' = [state |-> "returned", map |-> model_job_result]
    /\ UNCHANGED <<cmdVars, authVars, waitVars, ready, running, bpc, result_status, lock, waiters, model_job_result>>

\* lines 262-263: every task is done, the map is returned
GatherReturns ==
    /\ waited.state = "pending"
    /\ running = None
    /\ \A t \in jobs : bpc[t] = "done"
    /\ waited' = [state |-> "returned", map |-> model_job_result]
    /\ UNCHANGED <<cmdVars, authVars, waitVars, ready, running, bpc, result_status, lock, waiters, model_job_result>>

\* line 262: the exception of a task leaves gather once the tasks queued before
\* the failed task's completion callback have been stepped
GatherRaises ==
    /\ waited.state = "pending"
    /\ running = None
    /\ ready = <<>>
    /\ \E t \in jobs : bpc[t] = "raised"
    /\ waited' = [waited EXCEPT !.state = "raised"]
    /\ UNCHANGED <<cmdVars, authVars, waitVars, ready, running, bpc, result_status, lock, waiters, model_job_result>>

NextMany ==
    \/ RunNextTask
    \/ BuildInitialPoll
    \/ BuildLoopCheck
    \/ BuildSleep
    \/ BuildPoll
    \/ JobWaitReturns
    \/ AcquireLock
    \/ WriteResult
    \/ ReleaseLock
    \/ GatherReturns
    \/ GatherRaises

SpecMany == InitMany /\ [][NextMany]_vars

----------------------------------------------------------------------------
(* util/auth: strings, files, the authorization endpoint *)

\* bool(x) of an Optional[str]
Truthy(x) == x # None /\ x # {<<>>}

\* util/__init__.py count_notnone with exact_none=False
count_notnone(a, b, c) == Cardinality({i \in 1..3 : Truthy(<<a, b, c>>[i])})

Whitespace == {" "}

RECURSIVE lstrip(_)
lstrip(s) == IF s # <<>> /\ Head(s) \in Whitespace THEN lstrip(Tail(s)) ELSE s

RECURSIVE rstrip(_)
rstrip(s) == IF s # <<>> /\ s[Len(s)] \in Whitespace THEN rstrip(SubSeq(s, 1, Len(s) - 1)) ELSE s

\* str.strip()
strip(s) == rstrip(lstrip(s))

\* s.startswith('"') and s.endswith('"')
startswith_quote(s) == s # <<>> /\ Head(s) = "\""
endswith_quote(s) == s # <<>> /\ s[Len(s)] = "\""

\* s[1:-1]
Slice_1_m1(s) == SubSeq(s, 2, Len(s) - 1)

\* os.path.realpath of a relative path
realpath(path) == <<"/">> \o path

\* what a token file can hold: a text of quotes and token characters, with or
\* without white space around it
FileContents ==
    {l \o b \o t : l \in {<<>>, <<" ">>}, t \in {<<>>, <<" ">>},
                   b \in UNION {[1..n -> {"\"", "F"}] : n \in 0..MaxFileLen}}

\* a token file: None when there is no such file, else {its content}
TokenFiles == {None} \cup {{c} : c \in FileContents}

\* MixApiClientCred, as read from a credentials Json; valid is false for a Json
\* without the client-id or service-secret field
Creds == {[client_id |-> <<"i">>, service_secret |-> <<"s">>],
          [client_id |-> <<"j">>, service_secret |-> <<"r">>]}

CredFiles == {[valid |-> TRUE, cred |-> c] : c \in {k \in Creds : k.client_id = <<"i">>}}
                \cup {[valid |-> FALSE, cred |-> [client_id |-> <<>>, service_secret |-> <<>>]]}

\* the arguments given to config
TokenStrArgs == {None, {<<>>}, {<<"L">>}}
TokenFileArgs == {None, {<<>>}, {<<"t">>}}
CredFileArgs == {None, {<<>>}, {<<"c">>}}

\* the answer of the authorization endpoint: the request raises
\* (raise_for_status, transport), or a status code and a Json payload
AuthPayloads ==
    {[empty |-> TRUE, access_token |-> None, scope |-> "", token_type |-> ""]}
    \cup {[empty |-> FALSE, access_token |-> tk, scope |-> "mix-api", token_type |-> "bearer"] :
            tk \in {None, {<<"A">>}, {<<"B">>}}}
    \cup {[empty |-> FALSE, access_token |-> {<<"A">>}, scope |-> st[1], token_type |-> st[2]] :
            st \in {<<"other", "bearer">>, <<"mix-api", "mac">>}}

NoPayloadJson == [empty |-> TRUE, access_token |-> None, scope |-> "", token_type |-> ""]

NoAuthResponse == [kind |-> "none", status |-> 0, json |-> NoPayloadJson]

AuthResponses ==
    {[kind |-> "raise", status |-> 0, json |-> NoPayloadJson]}
    \cup {[kind |-> "json", status |-> 200, json |-> j] : j \in AuthPayloads}
    \cup {[kind |-> "json", status |-> 204, json |-> j] :
            j \in {p \in AuthPayloads : p.access_token = {<<"A">>} /\ p.scope = "mix-api"
                                                               /\ p.token_type = "bearer"}}

\* the answer of the probed endpoint: the request fails in transport, or a
\* status code comes back, with for a 2xx code a Json payload; error_status is
\* the 'status' of the 'error' object in the payload's 'data', None without one
ProbeAnswers ==
    {[kind |-> "raise", code |-> 0, error_status |-> None]}
    \cup {[kind |-> "status", code |-> c, error_status |-> None] : c \in {401, 500}}
    \cup {[kind |-> "json", code |-> 200, error_status |-> e] :
            e \in {None, {"unauthorized"}, {"Unauthorized"}, {"forbidden"}}}

NoProbe == [kind |-> "none", code |-> 0, error_status |-> None]

\* requests.py lines 83-88 and 116-159: an 'unauthorized' error status raises
\* the token expiration error, another error object raises RuntimeError
validate_resp_json_payload(error_status) ==
    IF error_status = None THEN ""
    ELSE IF Lower(CHOOSE e \in error_status : TRUE) = "unauthorized"
    THEN "MixApiAuthTokenExpirationError"
    ELSE "RuntimeError"

\* PyRequestsRunner.request with json_resp: what it raises ("" when it returns)
request(answer) ==
    CASE answer.kind = "raise" -> "RuntimeError"
      [] answer.kind = "status" -> "HTTPError"
      [] OTHER -> validate_resp_json_payload(answer.error_status)

\* pyreq_auth.py lines 87-98
probe_service(answer) == request(answer)

\* datetime.strftime / strptime with TIMESTAMP_FORMAT '%Y%m%dT%H:%M': the
\* timestamp is written in whole minutes
SECONDS_PER_MINUTE == 60
strftime(t) == t \div SECONDS_PER_MINUTE
strptime(m) == m * SECONDS_PER_MINUTE

TOKEN_LIFE_MINUTES == 14

\* mutant: the token is given the 15 minutes of the platform
add_expiration_timestamp_FullLife(time_now) ==
    strftime(time_now + (TOKEN_LIFE_MINUTES + 1) * SECONDS_PER_MINUTE)

\* add_expiration_timestamp: the 'expires_at' string put in the Json
add_expiration_timestamp(time_now) == strftime(time_now + TOKEN_LIFE_MINUTES * SECONDS_PER_MINUTE)

\* MixJsonToken.assert_json_token
assert_json_token(json) ==
    /\ json.access_token # None
    /\ json.scope = "mix-api"
    /\ json.token_type = "bearer"

\* MixJsonToken.__init__ on a Json with the expires_at field
MixJsonToken(json, expires_at) ==
    {[access_token |-> CHOOSE tk \in json.access_token : TRUE, expires_at |-> strptime(expires_at)]}

----------------------------------------------------------------------------
(* MixApiAuthHandler.config *)

ConfigRaise(e, m) ==
    [exc |-> e, msg |-> m, token_str |-> None, token_file |-> None,
     client_cred_file |-> None, client_cred |-> None]

ConfigOk(ts, tf, ccf, cc) ==
    [exc |-> "", msg |-> "", token_str |-> ts, token_file |-> tf,
     client_cred_file |-> ccf, client_cred |-> cc]

\* tokfile and credfile are what the files named by the arguments hold
config_from_sources(token_str, token_file, client_cred_json, tokfile, credfile) ==
    IF token_str = None /\ token_file = None /\ client_cred_json = None
    THEN ConfigRaise("ValueError", "Must specify either one")
    ELSE IF count_notnone(token_str, token_file, client_cred_json) > 1
    THEN ConfigRaise("ValueError", "Can only specify either one")
    ELSE IF Truthy(token_str)
    THEN ConfigOk(token_str, None, None, None)
    ELSE IF Truthy(token_file)
    THEN IF tokfile = None
         THEN ConfigRaise("FileNotFoundError", "token file")
         ELSE LET _token == strip(CHOOSE c \in tokfile : TRUE)
                  path == CHOOSE f \in token_file : TRUE
              IN  ConfigOk(IF startswith_quote(_token) /\ endswith_quote(_token)
                           THEN {Slice_1_m1(_token)} ELSE None,
                           {realpath(path)}, None, None)
    ELSE IF client_cred_json = None
    THEN ConfigRaise("TypeError", "codecs.open(None)")
    ELSE IF ~Truthy(client_cred_json)
    THEN ConfigRaise("FileNotFoundError", "credentials Json")
    ELSE IF ~credfile.valid
    THEN ConfigRaise("ValueError", "Field missing in credential Json")
    ELSE ConfigOk(None, None, client_cred_json, {credfile.cred})

\* a call on the handler: its arguments, what it raised (exc, msg) or
\* returned (value), the exchanges it made with the answer they got, the
\* client credential, the cached token and the time it started with, the probe
\* it made, the answer to the request it sent and the token file it read
Call(op, a, e, m, v, x, rs, cr, c, tm, pr) ==
    [op |-> op, args |-> a, exc |-> e, msg |-> m, value |-> v, exchanges |-> x,
     resp |-> rs, cred |-> cr, cached |-> c, time |-> tm, probe |-> pr,
     answer |-> [kind |-> "none", code |-> 0, error_status |-> None],
     file |-> None]

NoArgs == <<None, None, None>>

\* the credentials Json an argument names is read when the other two arguments are falsy
NoCredFile == [valid |-> FALSE, cred |-> [client_id |-> <<>>, service_secret |-> <<>>]]

\* the token files of the runs that go on to use the handler: no file, a file
\* with a quoted token and a line end, a file with a bare token
UsedTokenFiles == {None, {<<"\"", "F", "\"", " ">>}, {<<"F">>}}

\* lines 278-280: config, the token file named being one of files
ConfigWith(files) ==
    \E ts \in TokenStrArgs, tf \in TokenFileArgs, cc \in CredFileArgs :
      \E tokfile \in IF Truthy(tf) /\ ~Truthy(ts) THEN files ELSE {None},
         credfile \in IF Truthy(cc) /\ ~Truthy(ts) /\ ~Truthy(tf) THEN CredFiles ELSE {NoCredFile} :
        LET r == config_from_sources(ts, tf, cc, tokfile, credfile)
        IN  /\ IF r.exc = ""
               THEN /\ _token_str' = r.token_str
                    /\ _token_file' = r.token_file
                    /\ _client_cred_file' = r.client_cred_file
                    /\ _client_cred' = r.client_cred
               ELSE UNCHANGED <<_token_str, _token_file, _client_cred_file, _client_cred>>
            /\ last' = [Call("config", <<ts, tf, cc>>, r.exc, r.msg, None, 0,
                             NoAuthResponse, _client_cred, _token_clientauth, now, NoProbe)
                          EXCEPT !.file = tokfile]
            /\ UNCHANGED <<_token_clientauth, now, waitVars, manyVars, cmdVars>>

Config == ConfigWith(UsedTokenFiles)

----------------------------------------------------------------------------
(* MixApiAuthHandler.token *)

\* pyreq_auth.py lines 52-85: the exchange; every failure leaves as ValueError
pyreq_client_cred_auth(resp, time_now) ==
    IF resp.kind = "raise" \/ resp.status # 200 \/ resp.json.empty
    THEN [exc |-> "ValueError", msg |-> "Requests not returning token as valid Json",
          json |-> NoPayloadJson, expires_at |-> 0]
    ELSE [exc |-> "", msg |-> "", json |-> resp.json,
          expires_at |-> add_expiration_timestamp(time_now)]

\* pyreq_auth.py lines 28-50: the exchange, then the client_cred setter, then
\* the client_auth_token setter (which raises RuntimeError on an invalid Json)
client_cred_auth(cred, token_before, resp, time_now) ==
    LET auth == pyreq_client_cred_auth(resp, time_now)
    IN  IF auth.exc # ""
        THEN [exc |-> auth.exc, msg |-> auth.msg, client_cred |-> _client_cred,
              token_clientauth |-> token_before]
        ELSE IF ~assert_json_token(auth.json)
        THEN [exc |-> "RuntimeError", msg |-> "Client auth token must be valid Json object",
              client_cred |-> {cred}, token_clientauth |-> token_before]
        ELSE [exc |-> "", msg |-> "", client_cred |-> {cred},
              token_clientauth |-> MixJsonToken(auth.json, auth.expires_at)]

\* mutant: a token that expires this very second is taken as expired
TokenFresh_Strict(time_now, expires_at) == time_now < expires_at

\* line 366
TokenFresh(time_now, expires_at) == time_now <= expires_at

\* mutant: an expired literal token is answered with None (exc_if_expire off)
token_valid_literal_NoRaise(token_str, probe) ==
    LET e == probe_service(probe)
    IN  [exc |-> IF e = "MixApiAuthTokenExpirationError" THEN "" ELSE e,
         value |-> IF e = "" THEN token_str ELSE None]

\* lines 372-379 with exc_if_expire: the literal token is probed; the token
\* property re-raises the expiration error when there is no client credential
token_valid_literal(token_str, probe) ==
    LET e == probe_service(probe)
    IN  [exc |-> e, value |-> IF e = "" THEN token_str ELSE None]

\* mutant: a cached token is returned whatever its expires_at
token_ReusesExpired(resp, probe) ==
    IF _client_cred # None /\ _token_clientauth # None
    THEN [exc |-> "", msg |-> "", value |-> {(CHOOSE k \in _token_clientauth : TRUE).access_token},
          exchanges |-> 0, probes |-> 0, client_cred |-> _client_cred, token_clientauth |-> _token_clientauth]
    ELSE IF _client_cred # None
    THEN LET a == client_cred_auth(CHOOSE c \in _client_cred : TRUE, _token_clientauth, resp, now)
         IN  [exc |-> a.exc, msg |-> a.msg,
              value |-> IF a.exc = ""
                        THEN {(CHOOSE k \in a.token_clientauth : TRUE).access_token}
                        ELSE None,
              exchanges |-> 1, probes |-> 0, client_cred |-> a.client_cred,
              token_clientauth |-> a.token_clientauth]
    ELSE [exc |-> "", msg |-> "", value |-> None,
          exchanges |-> 0, probes |-> 0, client_cred |-> _client_cred, token_clientauth |-> _token_clientauth]

\* token_valid(exc_if_expire=True) followed by the handler of token: the state
\* the call leaves and what it returns or raises
token(resp, probe) ==
    IF _client_cred # None
    THEN LET cred == CHOOSE c \in _client_cred : TRUE
         IN  IF _token_clientauth # None
                /\ TokenFresh(now, (CHOOSE k \in _token_clientauth : TRUE).expires_at)
             THEN [exc |-> "", msg |-> "", value |-> {(CHOOSE k \in _token_clientauth : TRUE).access_token},
                   exchanges |-> 0, probes |-> 0, client_cred |-> _client_cred, token_clientauth |-> _token_clientauth]
             ELSE LET a == client_cred_auth(cred, _token_clientauth, resp, now)
                  IN  [exc |-> a.exc, msg |-> a.msg,
                       value |-> IF a.exc = ""
                                 THEN {(CHOOSE k \in a.token_clientauth : TRUE).access_token}
                                 ELSE None,
                       exchanges |-> 1, probes |-> 0, client_cred |-> a.client_cred,
                       token_clientauth |-> a.token_clientauth]
    ELSE IF Truthy(_token_str)
    THEN [exc |-> token_valid_literal(_token_str, probe).exc,
          msg |-> "", value |-> token_valid_literal(_token_str, probe).value,
          exchanges |-> 0, probes |-> 1, client_cred |-> _client_cred, token_clientauth |-> _token_clientauth]
    ELSE [exc |-> "", msg |-> "", value |-> None,
          exchanges |-> 0, probes |-> 0, client_cred |-> _client_cred, token_clientauth |-> _token_clientauth]

\* lines 321-345
Token ==
    \E resp \in IF _client_cred # None THEN AuthResponses ELSE {NoAuthResponse},
       probe \in IF _client_cred = None /\ Truthy(_token_str) THEN ProbeAnswers ELSE {NoProbe} :
        LET r == token(resp, probe)
        IN  /\ _client_cred' = r.client_cred
            /\ _token_clientauth' = r.token_clientauth
            /\ last' = Call("token", NoArgs, r.exc, r.msg, r.value, r.exchanges,
                            IF r.exchanges = 0 THEN NoAuthResponse ELSE resp,
                            _client_cred, _token_clientauth, now,
                            IF r.probes = 0 THEN NoProbe ELSE probe)
            /\ UNCHANGED <<_token_str, _token_file, _client_cred_file, now, waitVars, manyVars, cmdVars>>

\* pyreq_auth.py lines 28-50, called with a client id and a service secret
\* (MixCli.client_cred_auth, mixcli/__init__.py line 155)
ClientCredAuth ==
    \E cred \in Creds, resp \in AuthResponses :
        LET a == client_cred_auth(cred, _token_clientauth, resp, now)
        IN  /\ _client_cred' = a.client_cred
            /\ _token_clientauth' = a.token_clientauth
            /\ last' = Call("client_cred_auth", <<{cred.client_id}, {cred.service_secret}, None>>,
                            a.exc, a.msg,
                            IF a.exc = "" THEN resp.json.access_token ELSE None,
                            1, resp, _client_cred, _token_clientauth, now, NoProbe)
            /\ UNCHANGED <<_token_str, _token_file, _client_cred_file, now, waitVars, manyVars, cmdVars>>

\* requests.py lines 308-417 with default_headers: get_default_headers asks the
\* handler for the token (lines 201-203), the request is sent with it and its
\* answer is validated
Request ==
    \E resp \in IF _client_cred # None THEN AuthResponses ELSE {NoAuthResponse},
       probe \in IF _client_cred = None /\ Truthy(_token_str) THEN ProbeAnswers ELSE {NoProbe} :
      \E answer \in IF token(resp, probe).exc = "" THEN ProbeAnswers ELSE {NoProbe} :
        LET r == token(resp, probe)
            c == Call("request", NoArgs, IF r.exc # "" THEN r.exc ELSE request(answer), r.msg,
                      r.value, r.exchanges, IF r.exchanges = 0 THEN NoAuthResponse ELSE resp,
                      _client_cred, _token_clientauth, now,
                      IF r.probes = 0 THEN NoProbe ELSE probe)
        IN  /\ _client_cred' = r.client_cred
            /\ _token_clientauth' = r.token_clientauth
            /\ last' = [c EXCEPT !.answer = answer]
            /\ UNCHANGED <<_token_str, _token_file, _client_cred_file, now, waitVars, manyVars, cmdVars>>

\* time passes
Tick ==
    /\ now + TickStep <= MaxNow
    /\ now' = now + TickStep
    /\ last' = Call("tick", NoArgs, "", "", None, 0, NoAuthResponse, None, None, 0, NoProbe)
    /\ UNCHANGED <<_token_str, _token_file, _client_cred, _client_cred_file, _token_clientauth,
                   waitVars, manyVars, cmdVars>>

InitAuth ==
    /\ jobs = {}
    /\ args = <<>>
    /\ server = <<>>
    /\ pc = <<>>
    /\ time_waited = <<>>
    /\ timeout = <<>>
    /\ json_result = <<>>
    /\ polls = <<>>
    /\ sleeps = <<>>
    /\ outcome = <<>>
    /\ ready = <<>>
    /\ running = None
    /\ bpc = <<>>
    /\ result_status = <<>>
    /\ lock = None
    /\ waiters = <<>>
    /\ model_job_result = <<>>
    /\ waited = [state |-> "none", map |-> <<>>]
    /\ HandlerCreated
    /\ dimport = NoImport
    /\ runner = NoRun
    /\ cmdwait = NoCmdWait

NextAuth ==
    \/ Config
    \/ Token
    \/ ClientCredAuth
    \/ Tick

SpecAuth == InitAuth /\ [][NextAuth]_vars

\* a session whose tokens are asked for by the requests it sends
NextRequest ==
    \/ Config
    \/ Request
    \/ Tick

SpecRequest == InitAuth /\ [][NextRequest]_vars

\* config alone, on every combination of arguments and every token file
ConfigAnyFile == ConfigWith(TokenFiles)

NextConfig == ConfigAnyFile

SpecConfig == InitAuth /\ [][NextConfig]_vars

----------------------------------------------------------------------------
(* dlg_import (command/dlg/dimport.py lines 86-115) *)

\* the answer to the import request: the request raises, or returns no payload
\* (None), or a Json with or without the 'status' and 'id' fields
ImportResults ==
    {[kind |-> "raise", has_status |-> FALSE, has_id |-> FALSE],
     [kind |-> "none", has_status |-> FALSE, has_id |-> FALSE]}
    \cup {[kind |-> "json", has_status |-> st, has_id |-> id] : st \in BOOLEAN, id \in BOOLEAN}

\* mutant: job_id_from_meta without its assert_job_meta decorator
job_id_from_meta_NoAssert(meta) ==
    CASE meta.kind = "none" -> "TypeError"
      [] ~meta.has_id -> "KeyError"
      [] OTHER -> "ok"

\* status.py lines 48-50 with the decorator of lines 34-45: the exception the
\* call raises, "ok" when it returns the job id
job_id_from_meta(meta) ==
    CASE meta.kind = "none" -> "TypeError"
      [] ~meta.has_status -> "ValueError"
      [] ~meta.has_id -> "KeyError"
      [] OTHER -> "ok"

\* line 112: the arguments dlg_import gives job_wait_sync
ImportWaitArgs == [timeout |-> None, infinite_wait |-> TRUE, exc_if_timeout |-> TRUE,
                   exc_if_failed |-> FALSE, json_resp |-> TRUE]

ImportReturn(v) == [kind |-> "return", value |-> v, exc |-> ""]
ImportRaise(e) == [kind |-> "raise", value |-> "", exc |-> e]

InitImport ==
    /\ jobs = {"job"}
    /\ args = [t \in jobs |-> ImportWaitArgs]
    /\ server \in [jobs -> BuildScripts]
    /\ pc = [t \in jobs |-> "start"]
    /\ time_waited = [t \in jobs |-> 0]
    /\ timeout = [t \in jobs |-> None]
    /\ json_result = [t \in jobs |-> NoPayload]
    /\ polls = [t \in jobs |-> 0]
    /\ sleeps = [t \in jobs |-> 0]
    /\ outcome = [t \in jobs |-> NoOutcome]
    /\ ready = <<>>
    /\ running = None
    /\ bpc = [t \in jobs |-> "none"]
    /\ result_status = [t \in jobs |-> ""]
    /\ lock = None
    /\ waiters = <<>>
    /\ model_job_result = [t \in jobs |-> ""]
    /\ waited = [state |-> "none", map |-> [t \in jobs |-> ""]]
    /\ HandlerCreated
    /\ dimport \in {[NoImport EXCEPT !.pc = "start", !.wait_for = w, !.import_result = r] :
                        w \in BOOLEAN, r \in ImportResults}
    /\ runner = NoRun
    /\ cmdwait = NoCmdWait

\* lines 100-111: the import request, then the job id of its answer
DlgImport ==
    /\ dimport.pc = "start"
    /\ LET r == dimport.import_result
       IN  dimport' =
             IF r.kind = "raise"
             THEN [dimport EXCEPT !.pc = "done", !.result = ImportRaise("HTTPError")]
             ELSE IF ~dimport.wait_for
             THEN [dimport EXCEPT !.pc = "done", !.result = ImportReturn("import_result")]
             ELSE IF job_id_from_meta(r) # "ok"
             THEN [dimport EXCEPT !.pc = "done", !.result = ImportReturn("None")]
             ELSE [dimport EXCEPT !.pc = "waiting"]
    /\ UNCHANGED <<waitVars, manyVars, authVars, runner, cmdwait>>

\* line 112: job_wait_sync runs job_wait to its end
Importing(t) == dimport.pc = "waiting"

ImportInitialPoll == \E t \in jobs : Importing(t) /\ InitialPoll(t) /\ UNCHANGED <<manyVars, authVars, cmdVars>>
ImportLoopCheck == \E t \in jobs : Importing(t) /\ LoopCheck(t) /\ UNCHANGED <<manyVars, authVars, cmdVars>>
ImportSleep == \E t \in jobs : Importing(t) /\ Sleep(t) /\ UNCHANGED <<manyVars, authVars, cmdVars>>
ImportPoll == \E t \in jobs : Importing(t) /\ Poll(t) /\ UNCHANGED <<manyVars, authVars, cmdVars>>

\* lines 112-115: the pair job_wait_sync returns, or the exception it raises
ImportWaitReturns ==
    \E t \in jobs :
        /\ dimport.pc = "waiting"
        /\ pc[t] = "done"
        /\ dimport' =
             IF outcome[t].kind = "raise"
             THEN [dimport EXCEPT !.pc = "done", !.result = ImportRaise(outcome[t].exc)]
             ELSE IF outcome[t].value # "True"
             THEN [dimport EXCEPT !.pc = "done", !.result = ImportRaise("ValueError")]
             ELSE [dimport EXCEPT !.pc = "done", !.result = ImportReturn("job_meta")]
        /\ UNCHANGED <<waitVars, manyVars, authVars, runner, cmdwait>>

NextImport ==
    \/ DlgImport
    \/ ImportInitialPoll
    \/ ImportLoopCheck
    \/ ImportSleep
    \/ ImportPoll
    \/ ImportWaitReturns

SpecImport == InitImport /\ [][NextImport]_vars

----------------------------------------------------------------------------
(* cmd_job_wait (command/job/wait.py lines 158-185) *)

\* lines 199-205: --err-on-failed, and one at most of --infinite and -t/--timeout
CmdWaitKwargs ==
    {[NoCmdWait EXCEPT !.pc = "waiting", !.infinite = i, !.timeout = tm, !.err_on_failed = e] :
        i \in BOOLEAN, tm \in Timeouts, e \in BOOLEAN} \ {k \in
    {[NoCmdWait EXCEPT !.pc = "waiting", !.infinite = i, !.timeout = tm, !.err_on_failed = e] :
        i \in BOOLEAN, tm \in Timeouts, e \in BOOLEAN} : k.infinite /\ k.timeout # None}

\* lines 174-179 with the defaults of job_wait_sync (lines 130-133): the
\* arguments job_wait is called with
CmdWaitArgs(k) ==
    IF k.infinite
    THEN [timeout |-> None, infinite_wait |-> TRUE, exc_if_timeout |-> TRUE,
          exc_if_failed |-> k.err_on_failed, json_resp |-> FALSE]
    ELSE [timeout |-> k.timeout, infinite_wait |-> FALSE, exc_if_timeout |-> TRUE,
          exc_if_failed |-> k.err_on_failed, json_resp |-> FALSE]

CmdReturn(v) == [kind |-> "return", value |-> v, exc |-> ""]
CmdRaise(e) == [kind |-> "raise", value |-> "", exc |-> e]

InitCmdWait ==
    /\ jobs = {"job"}
    /\ cmdwait \in CmdWaitKwargs
    /\ args = [t \in jobs |-> CmdWaitArgs(cmdwait)]
    /\ server \in [jobs -> Scripts]
    /\ pc = [t \in jobs |-> "start"]
    /\ time_waited = [t \in jobs |-> 0]
    /\ timeout = [t \in jobs |-> None]
    /\ json_result = [t \in jobs |-> NoPayload]
    /\ polls = [t \in jobs |-> 0]
    /\ sleeps = [t \in jobs |-> 0]
    /\ outcome = [t \in jobs |-> NoOutcome]
    /\ ready = <<>>
    /\ running = None
    /\ bpc = [t \in jobs |-> "none"]
    /\ result_status = [t \in jobs |-> ""]
    /\ lock = None
    /\ waiters = <<>>
    /\ model_job_result = [t \in jobs |-> ""]
    /\ waited = [state |-> "none", map |-> [t \in jobs |-> ""]]
    /\ HandlerCreated
    /\ dimport = NoImport
    /\ runner = NoRun

\* lines 174-179: job_wait_sync runs job_wait to its end
CmdWaiting(t) == cmdwait.pc = "waiting"

CmdInitialPoll == \E t \in jobs : CmdWaiting(t) /\ InitialPoll(t) /\ UNCHANGED <<manyVars, authVars, cmdVars>>
CmdLoopCheck == \E t \in jobs : CmdWaiting(t) /\ LoopCheck(t) /\ UNCHANGED <<manyVars, authVars, cmdVars>>
CmdSleep == \E t \in jobs : CmdWaiting(t) /\ Sleep(t) /\ UNCHANGED <<manyVars, authVars, cmdVars>>
CmdPoll == \E t \in jobs : CmdWaiting(t) /\ Poll(t) /\ UNCHANGED <<manyVars, authVars, cmdVars>>

\* lines 180-185: 'if result:' on what job_wait_sync returned
CmdWaitReturns ==
    \E t \in jobs :
        /\ cmdwait.pc = "waiting"
        /\ pc[t] = "done"
        /\ cmdwait' =
             IF outcome[t].kind = "raise"
             THEN [cmdwait EXCEPT !.pc = "done", !.result = CmdRaise(outcome[t].exc)]
             ELSE IF outcome[t].value = "True"
             THEN [cmdwait EXCEPT !.pc = "done", !.result = CmdReturn("True")]
             ELSE [cmdwait EXCEPT !.pc = "done", !.result = CmdRaise("RuntimeError")]
        /\ UNCHANGED <<waitVars, manyVars, authVars, dimport, runner>>

NextCmdWait ==
    \/ CmdInitialPoll
    \/ CmdLoopCheck
    \/ CmdSleep
    \/ CmdPoll
    \/ CmdWaitReturns

SpecCmdWait == InitCmdWait /\ [][NextCmdWait]_vars

----------------------------------------------------------------------------
(* job_wait behind a handler built with a credentials Json: every status     *)
(* request asks the handler for the token first (requests.py lines 201-203) *)

\* the waits: a finite timeout with or without infinite_wait
AuthWaitArgs ==
    {a \in WaitArgs : a.timeout = {12} /\ a.exc_if_timeout /\ ~a.exc_if_failed /\ ~a.json_resp}

\* the jobs: 'submitted' some times, then completed, failed, still submitted,
\* or an HTTP error
AuthWaitScripts ==
    {sc \in Scripts : /\ sc.pendingStatus = "submitted"
                      /\ sc.final \in {Meta("completed"), Meta("failed"), Meta("submitted"),
                                        Raises("HTTPError")}}

\* auth/__init__.py lines 273-276: MixApiAuthHandler(client_cred_json=...)
InitAuthWait ==
    /\ jobs = {"job"}
    /\ args \in [jobs -> AuthWaitArgs]
    /\ server \in [jobs -> AuthWaitScripts]
    /\ pc = [t \in jobs |-> "start"]
    /\ time_waited = [t \in jobs |-> 0]
    /\ timeout = [t \in jobs |-> None]
    /\ json_result = [t \in jobs |-> NoPayload]
    /\ polls = [t \in jobs |-> 0]
    /\ sleeps = [t \in jobs |-> 0]
    /\ outcome = [t \in jobs |-> NoOutcome]
    /\ ready = <<>>
    /\ running = None
    /\ bpc = [t \in jobs |-> "none"]
    /\ result_status = [t \in jobs |-> ""]
    /\ lock = None
    /\ waiters = <<>>
    /\ model_job_result = [t \in jobs |-> ""]
    /\ waited = [state |-> "none", map |-> [t \in jobs |-> ""]]
    /\ _token_str = None
    /\ _token_file = None
    /\ \E f \in {k \in CredFiles : k.valid} : _client_cred = {f.cred}
    /\ _client_cred_file = {<<"c">>}
    /\ _token_clientauth = None
    /\ now = 0
    /\ last = NoCall
    /\ dimport = NoImport
    /\ runner = NoRun
    /\ cmdwait = NoCmdWait

\* job_wait has not been called yet
BeforeWait == \A t \in jobs : pc[t] = "start"

\* requests made before the wait, and the time that passes before it
EarlierToken == BeforeWait /\ Token
EarlierTick == BeforeWait /\ Tick

\* the status request behind get_default_headers: the exception of the token
\* call when it raises, else the server's answer to the k-th request
AuthStatus(t, k, r) == IF r.exc # "" THEN Raises(r.exc) ELSE check_job_status(t, k)

\* what the token call of a request leaves in the handler
HandlerAfter(r, resp) ==
    /\ _client_cred' = r.client_cred
    /\ _token_clientauth' = r.token_clientauth
    /\ last' = Call("request", NoArgs, r.exc, r.msg, r.value, r.exchanges,
                    IF r.exchanges = 0 THEN NoAuthResponse ELSE resp,
                    _client_cred, _token_clientauth, now, NoProbe)
    /\ UNCHANGED <<_token_str, _token_file, _client_cred_file, now>>

\* wait.py lines 72-82, the status request going through the handler
AuthInitialPoll ==
    \E t \in jobs, resp \in AuthResponses :
        LET r == token(resp, NoProbe)
            st == AuthStatus(t, 1, r)
        IN  /\ pc[t] = "start"
            /\ HandlerAfter(r, resp)
            /\ polls' = [polls EXCEPT ![t] = 1]
            /\ IF st.kind = "raise"
               THEN /\ outcome' = [outcome EXCEPT ![t] = Raise("ValueError", "Cannot find the job to wait for")]
                    /\ pc' = [pc EXCEPT ![t] = "done"]
                    /\ UNCHANGED <<json_result, time_waited, timeout>>
               ELSE /\ json_result' = [json_result EXCEPT ![t] = st]
                    /\ time_waited' = [time_waited EXCEPT ![t] = 0]
                    /\ timeout' = [timeout EXCEPT ![t] =
                                     IF args[t].timeout = None \/ args[t].timeout = {0}
                                     THEN {DEFAULT_JOB_WAIT_TIMEOUT_SEC}
                                     ELSE args[t].timeout]
                    /\ pc' = [pc EXCEPT ![t] = "check"]
                    /\ UNCHANGED outcome
            /\ UNCHANGED <<jobs, args, server, sleeps, manyVars, cmdVars>>

AuthLoopCheck == \E t \in jobs : LoopCheck(t) /\ UNCHANGED <<manyVars, authVars, cmdVars>>

\* wait.py lines 108-111: the sleep takes 5 seconds of the clock
AuthSleep ==
    \E t \in jobs :
        /\ Sleep(t)
        /\ now' = now + JOB_STATUS_CHK_INTVL
        /\ UNCHANGED <<_token_str, _token_file, _client_cred, _client_cred_file,
                       _token_clientauth, last, manyVars, cmdVars>>

\* wait.py line 114, the status request going through the handler
AuthPoll ==
    \E t \in jobs, resp \in AuthResponses :
        LET r == token(resp, NoProbe)
            st == AuthStatus(t, polls[t] + 1, r)
        IN  /\ pc[t] = "poll"
            /\ HandlerAfter(r, resp)
            /\ polls' = [polls EXCEPT ![t] = @ + 1]
            /\ IF st.kind = "raise"
               THEN /\ outcome' = [outcome EXCEPT ![t] = Raise(st.exc, "")]
                    /\ pc' = [pc EXCEPT ![t] = "done"]
                    /\ UNCHANGED json_result
               ELSE /\ json_result' = [json_result EXCEPT ![t] = st]
                    /\ pc' = [pc EXCEPT ![t] = "check"]
                    /\ UNCHANGED outcome
            /\ UNCHANGED <<jobs, args, server, time_waited, timeout, sleeps, manyVars, cmdVars>>

NextAuthWait ==
    \/ EarlierToken
    \/ EarlierTick
    \/ AuthInitialPoll
    \/ AuthLoopCheck
    \/ AuthSleep
    \/ AuthPoll

SpecAuthWait == InitAuthWait /\ [][NextAuthWait]_vars

----------------------------------------------------------------------------
(* ScriptRunner.run_script (command/run/data.py lines 422-454) *)

\* a line of the script: commented out or not (to_skip), and what running it
\* does: parse_args rejects it ("invalid"), proc_cmd_args returns ("ok"),
\* raises an exception ("raise"), or leaves through sys.exit ("exit")
ScriptCmds == [to_skip : BOOLEAN, does : {"ok", "invalid", "raise", "exit"}]

CmdLists == UNION {[1..n -> ScriptCmds] : n \in 0..MaxCmds}

RunReturn(v) == [kind |-> "return", value |-> v, exc |-> ""]
RunRaise(e) == [kind |-> "raise", value |-> "", exc |-> e]

InitRun ==
    /\ jobs = {}
    /\ args = <<>>
    /\ server = <<>>
    /\ pc = <<>>
    /\ time_waited = <<>>
    /\ timeout = <<>>
    /\ json_result = <<>>
    /\ polls = <<>>
    /\ sleeps = <<>>
    /\ outcome = <<>>
    /\ ready = <<>>
    /\ running = None
    /\ bpc = <<>>
    /\ result_status = <<>>
    /\ lock = None
    /\ waiters = <<>>
    /\ model_job_result = <<>>
    /\ waited = [state |-> "none", map |-> <<>>]
    /\ HandlerCreated
    /\ dimport = NoImport
    /\ runner \in {[NoRun EXCEPT !.pc = "start", !.dry_run = d, !.parses = p, !.cmd_list = c] :
                       d \in BOOLEAN, p \in BOOLEAN, c \in CmdLists}
    /\ cmdwait = NoCmdWait

\* lines 430-433: the parser yields the command list, or the script does not parse
ParseCommands ==
    /\ runner.pc = "start"
    /\ runner' = IF runner.parses
                 THEN [runner EXCEPT !.pc = "loop", !.next = 1]
                 ELSE [runner EXCEPT !.pc = "done", !.result = RunRaise("RuntimeError")]
    /\ UNCHANGED <<waitVars, manyVars, authVars, dimport, cmdwait>>

\* mutant: the exception of a command is swallowed and the loop goes on
RunCommand_Continues ==
    /\ runner.pc = "loop"
    /\ runner.next <= Len(runner.cmd_list)
    /\ LET mc_cmd == runner.cmd_list[runner.next]
       IN  runner' =
             IF mc_cmd.to_skip \/ runner.dry_run
             THEN [runner EXCEPT !.next = @ + 1]
             ELSE [runner EXCEPT !.next = @ + 1, !.started = Append(@, runner.next)]
    /\ UNCHANGED <<waitVars, manyVars, authVars, dimport, cmdwait>>

\* lines 437-453: one turn of the loop over the command list
RunCommand ==
    /\ runner.pc = "loop"
    /\ runner.next <= Len(runner.cmd_list)
    /\ LET mc_cmd == runner.cmd_list[runner.next]
       IN  runner' =
             IF mc_cmd.to_skip \/ runner.dry_run
             THEN [runner EXCEPT !.next = @ + 1]
             ELSE CASE mc_cmd.does = "ok" ->
                         [runner EXCEPT !.next = @ + 1, !.started = Append(@, runner.next)]
                    [] mc_cmd.does = "exit" ->
                         [runner EXCEPT !.pc = "done", !.started = Append(@, runner.next),
                                        !.result = RunRaise("SystemExit")]
                    [] OTHER ->
                         [runner EXCEPT !.pc = "done", !.started = Append(@, runner.next),
                                        !.result = RunRaise("RuntimeError")]
    /\ UNCHANGED <<waitVars, manyVars, authVars, dimport, cmdwait>>

\* line 454: the loop is over
RunScriptReturns ==
    /\ runner.pc = "loop"
    /\ runner.next > Len(runner.cmd_list)
    /\ runner' = [runner EXCEPT !.pc = "done", !.result = RunReturn("True")]
    /\ UNCHANGED <<waitVars, manyVars, authVars, dimport, cmdwait>>

NextRun ==
    \/ ParseCommands
    \/ RunCommand
    \/ RunScriptReturns

SpecRun == InitRun /\ [][NextRun]_vars

----------------------------------------------------------------------------
(* Properties of one job_wait call, checked under SpecWait *)

\* the wait budget a caller asked for: the timeout given, 600 when none is given
Budget(t) == IF args[t].timeout = None THEN DEFAULT_JOB_WAIT_TIMEOUT_SEC
             ELSE CHOOSE T \in args[t].timeout : TRUE

\* the job of wait t answers 'submitted' to every request
NeverTerminal(t) ==
    /\ Lower(server[t].pendingStatus) = JOB_STATUS_SUBMITTED
    /\ server[t].final.kind = "meta"
    /\ Lower(server[t].final.status) = JOB_STATUS_SUBMITTED

\* the job of wait t answers 'submitted' to the first nPending requests, then 'completed'
SubmittedThenCompleted(t) ==
    /\ Lower(server[t].pendingStatus) = JOB_STATUS_SUBMITTED
    /\ server[t].final.kind = "meta"
    /\ Lower(server[t].final.status) = JOB_STATUS_COMPLETED

Returned(t, rv) == pc[t] = "done" /\ outcome[t].kind = "return" /\ outcome[t].value = rv

Raised(t, e) == pc[t] = "done" /\ outcome[t].kind = "raise" /\ outcome[t].exc = e

\* C1: when the status request answers 'submitted' N times and then 'completed',
\* and the timeout is not reached (infinite wait, or N x 5 seconds within the
\* budget), job_wait returns True after exactly N+1 requests and N sleeps of
\* 5 seconds.
C1_TerminalConvergence ==
    \A t \in jobs :
        LET N == server[t].nPending
        IN  (SubmittedThenCompleted(t) /\ (args[t].infinite_wait \/ N * 5 <= Budget(t)))
            => /\ polls[t] <= N + 1
               /\ sleeps[t] <= N
               /\ pc[t] = "done" =>
                    /\ Returned(t, "True")
                    /\ polls[t] = N + 1
                    /\ sleeps[t] = N
                    /\ time_waited[t] = N * 5

C1_Witness ==
    \E t \in jobs :
        /\ SubmittedThenCompleted(t) /\ server[t].nPending = 2
        /\ args[t].timeout = {12} /\ ~args[t].infinite_wait
        /\ Returned(t, "True") /\ polls[t] = 3 /\ sleeps[t] = 2

\* C2 (as stated): for a never-terminal job, job_wait(timeout=12,
\* exc_if_timeout=False) returns None after exactly 3 status requests, and for a
\* finite timeout no sleep is started that brings the accumulated wait beyond
\* the timeout.
C2_TimeoutBoundary_Original ==
    \A t \in jobs :
        (NeverTerminal(t) /\ ~args[t].infinite_wait /\ args[t].timeout = {12})
        => /\ time_waited[t] <= 12
           /\ (pc[t] = "done" /\ ~args[t].exc_if_timeout) =>
                (Returned(t, "None") /\ polls[t] = 3)

\* C2 (amended): for a never-terminal job, job_wait(timeout=12,
\* exc_if_timeout=False) returns None after exactly 4 status requests (at 0s, 5s,
\* 10s and 15s of accumulated wait); a sleep is started whenever the accumulated
\* wait is still below the timeout in force, so the accumulated wait stays below
\* that timeout plus 5 seconds.
C2_TimeoutBoundary ==
    \A t \in jobs :
        /\ (NeverTerminal(t) /\ ~args[t].infinite_wait /\ args[t].timeout = {12})
           => /\ polls[t] <= 4
              /\ (pc[t] = "done" /\ ~args[t].exc_if_timeout) =>
                    /\ Returned(t, "None")
                    /\ polls[t] = 4 /\ sleeps[t] = 3 /\ time_waited[t] = 15
        /\ (~args[t].infinite_wait /\ pc[t] # "start")
           => \A T \in timeout[t] :
                /\ time_waited[t] < T + JOB_STATUS_CHK_INTVL
                /\ pc[t] = "sleep" => time_waited[t] < T

C2_Witness ==
    \E t \in jobs :
        /\ NeverTerminal(t) /\ ~args[t].infinite_wait /\ args[t].timeout = {12}
        /\ Returned(t, "None") /\ polls[t] = 4 /\ time_waited[t] = 15

\* the last status request of wait t answered 'failed' in some letter case
SawFailed(t) ==
    /\ pc[t] # "start"
    /\ json_result[t].kind = "meta"
    /\ Lower(json_result[t].status) = JOB_STATUS_FAILED

\* C3: when a status request answers 'failed' (any letter case), job_wait raises
\* the job-failed error when exc_if_failed, and otherwise returns False, paired
\* with that failed snapshot when json_resp; it neither goes on waiting nor
\* reports success or a timeout.
C3_FailureSignaling ==
    \A t \in jobs :
        SawFailed(t)
        => /\ pc[t] \in {"check", "done"}
           /\ pc[t] = "done" =>
                IF args[t].exc_if_failed
                THEN Raised(t, "RuntimeError") /\ outcome[t].msg = "Mix job failed"
                ELSE /\ Returned(t, "False")
                     /\ outcome[t].paired = args[t].json_resp
                     /\ args[t].json_resp => outcome[t].snapshot = json_result[t]

C3_Witness ==
    \E t \in jobs :
        /\ SawFailed(t) /\ json_result[t].status = "Failed"
        /\ args[t].json_resp /\ ~args[t].exc_if_failed
        /\ Returned(t, "False") /\ outcome[t].snapshot = Meta("Failed")

IsTimeoutOutcome(t) == Raised(t, "TimeoutError") \/ Returned(t, "None")

\* C4: job_wait ends in a timeout only when infinite_wait is false and the job is
\* still not terminal once the accumulated wait has reached the timeout; the
\* timeout is raised exactly when exc_if_timeout and is otherwise returned as
\* None (with the last snapshot when json_resp). With infinite_wait the wait
\* neither raises the timeout nor returns None.
C4_TimeoutSignaling ==
    \A t \in jobs :
        /\ IsTimeoutOutcome(t)
           => /\ ~args[t].infinite_wait
              /\ json_result[t].kind = "meta" /\ ~job_completed(json_result[t])
              /\ \A T \in timeout[t] : time_waited[t] >= T
              /\ Raised(t, "TimeoutError") <=> args[t].exc_if_timeout
              /\ Returned(t, "None") =>
                    /\ outcome[t].paired = args[t].json_resp
                    /\ args[t].json_resp => outcome[t].snapshot = json_result[t]
        /\ (pc[t] = "done" /\ ~args[t].infinite_wait /\ outcome[t].exc \notin PollErrors
              /\ json_result[t].kind = "meta" /\ ~job_completed(json_result[t])
              /\ outcome[t].msg # "Cannot find the job to wait for")
           => IsTimeoutOutcome(t)

C4_Witness ==
    \E t \in jobs :
        /\ Raised(t, "TimeoutError") /\ args[t].exc_if_timeout
        /\ ~args[t].infinite_wait /\ args[t].timeout = {12} /\ time_waited[t] = 15

\* C5: a status outside submitted / completed / failed makes job_wait fail with
\* the unexpected-status error; the wait never goes on sleeping and polling on
\* such a status.
C5_ClassificationTotality ==
    \A t \in jobs :
        (/\ pc[t] # "start"
         /\ json_result[t].kind = "meta"
         /\ Lower(json_result[t].status) \notin
                {JOB_STATUS_SUBMITTED, JOB_STATUS_COMPLETED, JOB_STATUS_FAILED})
        => /\ pc[t] \in {"check", "done"}
           /\ pc[t] = "done" =>
                (Raised(t, "ValueError") /\ outcome[t].msg = "Unexpected job status enum from meta")

\* C6: when the server does not recognise the job on the initial status request,
\* job_wait fails with the cannot-find-the-job error after exactly one request
\* and no sleep, whatever timeout, infinite_wait, exc_if_timeout and exc_if_failed.
C6_JobNotFoundFailFast ==
    \A t \in jobs :
        (server[t].nPending = 0 /\ server[t].final = Raises("HTTPError"))
        => /\ pc[t] \in {"start", "done"}
           /\ sleeps[t] = 0
           /\ pc[t] = "done" =>
                /\ Raised(t, "ValueError")
                /\ outcome[t].msg = "Cannot find the job to wait for"
                /\ polls[t] = 1

C6_Witness ==
    \E t \in jobs :
        /\ server[t].nPending = 0 /\ server[t].final = Raises("HTTPError")
        /\ args[t].infinite_wait
        /\ Raised(t, "ValueError") /\ polls[t] = 1 /\ sleeps[t] = 0

----------------------------------------------------------------------------
(* Properties of wait_for_model_build_jobs, checked under SpecMany *)

\* C7: the waits of the build jobs run concurrently: a job that is not yet
\* terminal does not delay the first status request of another job, so by the
\* time one wait makes its second status request (after its first sleep) every
\* other wait has made its first.
C7_ConcurrentWaits ==
    \A a, b \in jobs : (a # b /\ polls[a] >= 2) => polls[b] >= 1

\* the value wait_for_model_build_jobs owes the label t
TerminalValue(t) ==
    IF Lower(server[t].final.status) = JOB_STATUS_COMPLETED
    THEN JOB_STATUS_COMPLETED ELSE JOB_STATUS_FAILED

\* C8: wait_for_model_build_jobs returns only after every job's wait has
\* finished; the returned map holds, for every label, the terminal value of
\* that label's own job and no placeholder; a key is written by its own task
\* only, while that task holds the lock.
C8_WaitIsolation ==
    /\ waited.state = "returned" =>
          /\ DOMAIN waited.map = jobs
          /\ \A t \in jobs :
                /\ pc[t] = "done" /\ bpc[t] = "done"
                /\ server[t].final.kind = "meta"
                /\ waited.map[t] = TerminalValue(t)
    /\ \A t \in jobs :
          /\ bpc[t] \in {"locked", "written"} => (lock = {t} /\ running = {t})
          /\ model_job_result[t] # "" =>
                (bpc[t] \in {"written", "done"} /\ model_job_result[t] = TerminalValue(t))

C8_Witness ==
    \E a, b \in jobs :
        /\ a # b
        /\ server[a].final = Meta("completed") /\ server[a].nPending = 1
        /\ server[b].final = Meta("Failed") /\ server[b].nPending = 0
        /\ polls[a] = 2 /\ polls[b] = 1
        /\ waited.state = "returned"
        /\ waited.map[a] = JOB_STATUS_COMPLETED /\ waited.map[b] = JOB_STATUS_FAILED

----------------------------------------------------------------------------
(* Properties of the auth handler *)

\* the cached token the last call started with
CachedBefore == CHOOSE k \in last.cached : TRUE

\* C9: on a handler with a client credential, a token call made while
\* now <= expires_at of the cached token makes no exchange, returns the cached
\* string and leaves the cached token and its expires_at as they are; a call
\* made with nothing cached or after expires_at makes exactly one exchange and,
\* when that exchange is granted, caches the token issued and returns its string.
C9_RefreshIdempotence ==
    (last.op = "token" /\ last.cred # None) =>
        IF last.cached # None /\ last.time <= CachedBefore.expires_at
        THEN /\ last.exchanges = 0
             /\ last.exc = ""
             /\ last.value = {CachedBefore.access_token}
             /\ _token_clientauth = last.cached
        ELSE /\ last.exchanges = 1
             /\ last.exc = "" =>
                  /\ last.value = last.resp.json.access_token
                  /\ \E k \in _token_clientauth :
                        /\ last.value = {k.access_token}
                        /\ k.expires_at > last.time
             /\ last.exc # "" => _token_clientauth = last.cached

\* a call in the expiration window of a token cached by an earlier call
C9_Witness ==
    /\ last.op = "token" /\ last.cred # None
    /\ last.cached # None /\ last.time > 0 /\ last.time <= CachedBefore.expires_at
    /\ last.exchanges = 0
    /\ last.value = {CachedBefore.access_token}

\* the number of auth sources passed to config
SourcesPassed(a) == Cardinality({i \in 1..3 : a[i] # None})

\* C10: config succeeds only when exactly one of the three auth sources is
\* passed; with none, two or three passed it fails with the configuration error.
C10_ExactlyOneSource ==
    last.op = "config" =>
        /\ last.exc = "" => SourcesPassed(last.args) = 1
        /\ SourcesPassed(last.args) # 1 =>
              (last.exc = "ValueError"
                 /\ last.msg \in {"Must specify either one", "Can only specify either one"})

\* C11: in every state reached by config, token and client_cred_auth calls on a
\* configured handler, one token source only is active: the handler never holds
\* a literal token and a client credential at the same time.
C11_ExactlyOneStrategy ==
    ~(_token_str # None /\ _client_cred # None)

\* the probe of the last call answered with the 'unauthorized' signal
ProbeUnauthorized ==
    /\ last.probe.kind = "json"
    /\ last.probe.error_status \in {{"unauthorized"}, {"Unauthorized"}}

C13_TransparentReissuance ==
    (last.op = "request" /\ last.cred # None) =>
        last.exc # "MixApiAuthTokenExpirationError"

\* the last call made an exchange whose answer has a status other than 200 or
\* an empty payload
ExchangeRejected ==
    /\ last.op \in {"token", "client_cred_auth"}
    /\ last.exchanges = 1
    /\ last.resp.kind = "json"
    /\ \/ last.resp.status # 200
       \/ last.resp.json.empty

\* C14: when the exchange is answered with a status other than 200 or with an
\* empty payload, client_cred_auth, and the token call that made it,
\* raise the authorization failure error and no other error; one exchange is
\* made, not more.
C14_AuthFailureClassification ==
    ExchangeRejected =>
        /\ last.exc = "MixApiAuthFailureError"
        /\ last.exchanges = 1

\* the last call made an exchange that was granted
ExchangeGranted ==
    /\ last.op \in {"token", "client_cred_auth"}
    /\ last.exchanges = 1
    /\ last.exc = ""

\* C15 (as stated): the expires_at of a token issued is its issuance time plus
\* exactly 14 minutes (840 seconds), whatever the issuance time.
C15_ExpirationStamping_Original ==
    ExchangeGranted =>
        \A k \in _token_clientauth : k.expires_at = last.time + 840

\* C15 (amended): the expires_at of a token issued is its issuance time plus 14
\* minutes, cut down to the whole minute: it is a whole minute, at most 840
\* seconds and more than 780 seconds after the issuance, and 840 seconds after
\* an issuance on a whole minute. A token call that makes no exchange leaves the
\* cached token and its expires_at as they are.
C15_ExpirationStamping ==
    /\ ExchangeGranted =>
          /\ _token_clientauth # None
          /\ \A k \in _token_clientauth :
                /\ k.expires_at % 60 = 0
                /\ k.expires_at <= last.time + 840
                /\ k.expires_at > last.time + 780
                /\ last.time % 60 = 0 => k.expires_at = last.time + 840
    /\ (last.op = "token" /\ last.exchanges = 0) => _token_clientauth = last.cached

\* a token issued 280 seconds into the session expires at 1080, not 1120
C15_Witness ==
    /\ ExchangeGranted
    /\ last.time % 60 # 0
    /\ \E k \in _token_clientauth :
          /\ k.expires_at < last.time + 840
          /\ k.expires_at = ((last.time + 840) \div 60) * 60

----------------------------------------------------------------------------
(* Properties of config on a token file, checked under SpecConfig *)

\* the content of the token file the last config read, without the white space around it
TrimmedContent == strip(CHOOSE c \in last.file : TRUE)

\* s is enclosed in a pair of double quotes
Enclosed(s) == Len(s) >= 2 /\ Head(s) = "\"" /\ s[Len(s)] = "\""

\* C16: after config(token_file=f) succeeds on a file that is not blank, the
\* literal token of the handler is the trimmed content of f without its pair
\* of enclosing double quotes when it has one, and the trimmed content itself
\* when it has none.
C16_TokenFileReading ==
    (last.op = "config" /\ last.exc = "" /\ last.file # None /\ TrimmedContent # <<>>) =>
        _token_str = {IF Enclosed(TrimmedContent)
                      THEN SubSeq(TrimmedContent, 2, Len(TrimmedContent) - 1)
                      ELSE TrimmedContent}

----------------------------------------------------------------------------
(* Further properties of one job_wait call, checked under SpecWait *)

\* the answer to the last status request wait t made
LastAnswer(t) == check_job_status(t, polls[t])

\* C17: a transport error or a token expiration error raised by a status
\* request of job_wait, the initial request included, leaves job_wait as the
\* same error; it is not turned into the cannot-find-the-job error or into a
\* returned outcome. (The HTTP error of a request is left out here: on the
\* initial request it is how an unknown job shows.)
C17_ErrorPropagation ==
    \A t \in jobs :
        (/\ pc[t] = "done" /\ polls[t] >= 1
         /\ LastAnswer(t).kind = "raise"
         /\ LastAnswer(t).exc \in {"RuntimeError", "MixApiAuthTokenExpirationError"})
        => Raised(t, LastAnswer(t).exc)

\* C18: job_wait called with json_resp returns the pair of the answer to its
\* most recent status request and the outcome: True with a completed snapshot,
\* False with a failed one, None with the last non-terminal one on a timeout;
\* without json_resp it returns the outcome alone.
C18_SnapshotPairing ==
    \A t \in jobs :
        (pc[t] = "done" /\ outcome[t].kind = "return") =>
            /\ outcome[t].paired = args[t].json_resp
            /\ outcome[t].value \in {"True", "False", "None"}
            /\ LastAnswer(t).kind = "meta"
            /\ outcome[t].value = "True" <=> Lower(LastAnswer(t).status) = JOB_STATUS_COMPLETED
            /\ outcome[t].value = "False" <=> Lower(LastAnswer(t).status) = JOB_STATUS_FAILED
            /\ IF args[t].json_resp
               THEN outcome[t].snapshot = LastAnswer(t)
               ELSE outcome[t].snapshot = NoPayload

\* a timed-out wait returns the snapshot of its fourth request with None
C18_Witness ==
    \E t \in jobs :
        /\ args[t].json_resp /\ ~args[t].exc_if_timeout /\ ~args[t].infinite_wait
        /\ Returned(t, "None") /\ polls[t] = 4
        /\ outcome[t].paired
        /\ outcome[t].snapshot = Meta("SUBMITTED")

\* C19: when the answer to a status request, the initial one or a later one,
\* has no status field, job_wait raises the invalid-job-meta error and returns
\* no outcome; that error differs from the unexpected-status error and from
\* the cannot-find-the-job error.
C19_MalformedResponse ==
    \A t \in jobs :
        (pc[t] = "done" /\ polls[t] >= 1 /\ LastAnswer(t).kind \in {"nostatus", "none"})
        => /\ Raised(t, "ValueError")
           /\ outcome[t].msg = "Invalid job meta Json"

----------------------------------------------------------------------------
(* Properties of dlg_import, checked under SpecImport *)

\* the import response carries a job meta: a Json with the status and id fields
HasJobMeta == dimport.import_result.kind = "json"
                /\ dimport.import_result.has_status /\ dimport.import_result.has_id

\* C20: dlg_import asked to wait, on an import response without job meta,
\* returns (None) without any status request; on a response with a job meta it
\* returns only once the wait has ended with the job completed, and raises when
\* the job ends failed.
C20_ImportWithoutJob ==
    (dimport.pc = "done" /\ dimport.wait_for /\ dimport.import_result.kind # "raise") =>
        \A t \in jobs :
            IF ~HasJobMeta
            THEN dimport.result = ImportReturn("None") /\ polls[t] = 0
            ELSE /\ pc[t] = "done"
                 /\ dimport.result.kind = "return" =>
                        /\ Returned(t, "True")
                        /\ Lower(LastAnswer(t).status) = JOB_STATUS_COMPLETED
                 /\ (LastAnswer(t).kind = "meta" /\ Lower(LastAnswer(t).status) = JOB_STATUS_FAILED)
                        => dimport.result = ImportRaise("ValueError")

\* an import response without status and id is taken as done, without a request
C20_Witness ==
    /\ dimport.pc = "done" /\ dimport.wait_for
    /\ dimport.import_result = [kind |-> "json", has_status |-> FALSE, has_id |-> FALSE]
    /\ dimport.result = ImportReturn("None")
    /\ \A t \in jobs : polls[t] = 0

----------------------------------------------------------------------------
(* Properties of run_script, checked under SpecRun *)

\* the lines of the script run_script started to run
Started == {runner.started[k] : k \in 1..Len(runner.started)}

\* C21: run_script starts the commands that are not skipped in the order of the
\* script, each once and none left out; when a command fails (it is rejected by
\* the argument parser, raises, or exits) the run ends with an error and no
\* later command of the script is started.
C21_ScriptAbortOnFailure ==
    /\ \A k \in 1..(Len(runner.started) - 1) : runner.started[k] < runner.started[k + 1]
    /\ \A j \in Started : ~runner.cmd_list[j].to_skip
    /\ (runner.pc \in {"loop", "done"} /\ runner.parses /\ ~runner.dry_run) =>
          \A j \in 1..(runner.next - 1) : ~runner.cmd_list[j].to_skip => j \in Started
    /\ \A j \in Started :
          runner.cmd_list[j].does # "ok" =>
              /\ runner.pc = "done"
              /\ runner.result.kind = "raise"
              /\ \A i \in Started : i <= j
    /\ (runner.pc = "done" /\ runner.result.kind = "return") =>
          /\ runner.next = Len(runner.cmd_list) + 1
          /\ \A j \in Started : runner.cmd_list[j].does = "ok"

\* the second of three commands fails: the third is not started
C21_Witness ==
    /\ runner.pc = "done" /\ ~runner.dry_run
    /\ Len(runner.cmd_list) = 3
    /\ \A j \in 1..3 : ~runner.cmd_list[j].to_skip
    /\ runner.cmd_list[1].does = "ok" /\ runner.cmd_list[2].does = "raise"
    /\ runner.cmd_list[3].does = "ok"
    /\ runner.started = <<1, 2>>
    /\ runner.result = RunRaise("RuntimeError")

----------------------------------------------------------------------------
(* Order, bounds and termination of one job_wait call *)

\* the answer wait t last received is a job meta with status completed or failed
TerminalSeen(t) ==
    /\ pc[t] # "start"
    /\ json_result[t].kind = "meta"
    /\ Lower(json_result[t].status) \in {JOB_STATUS_COMPLETED, JOB_STATUS_FAILED}

\* C22: in one job_wait, after the initial status request every request comes
\* after exactly one sleep of 5 seconds; once a completed or failed snapshot has
\* been received no further request or sleep is made; and once job_wait has
\* ended (outcome, timeout or error) nothing of the wait changes any more.
C22_PollOrdering ==
    /\ [](\A t \in jobs :
            /\ pc[t] = "start" => (polls[t] = 0 /\ sleeps[t] = 0)
            /\ pc[t] \in {"check", "sleep"} => polls[t] = sleeps[t] + 1
            /\ pc[t] = "poll" => polls[t] = sleeps[t]
            /\ pc[t] = "done" => polls[t] \in {sleeps[t], sleeps[t] + 1}
            /\ pc[t] # "start" => time_waited[t] = JOB_STATUS_CHK_INTVL * sleeps[t]
            /\ TerminalSeen(t) => pc[t] \in {"check", "done"})
    /\ [][\A t \in jobs :
            /\ polls'[t] \in {polls[t], polls[t] + 1}
            /\ sleeps'[t] \in {sleeps[t], sleeps[t] + 1}
            /\ polls'[t] = polls[t] + 1 => (sleeps'[t] = sleeps[t] /\ pc[t] \in {"start", "poll"})
            /\ (pc[t] = "done" \/ TerminalSeen(t)) =>
                    (polls'[t] = polls[t] /\ sleeps'[t] = sleeps[t])
            /\ pc[t] = "done" => (pc'[t] = "done" /\ outcome'[t] = outcome[t]
                                     /\ json_result'[t] = json_result[t])]_vars

\* a wait that ended on its third request, after two sleeps
C22_Witness ==
    \E t \in jobs :
        /\ pc[t] = "done" /\ polls[t] = 3 /\ sleeps[t] = 2 /\ time_waited[t] = 10
        /\ TerminalSeen(t) /\ Returned(t, "False")

\* the smallest integer not below T / 5
CeilIntervals(T) == (T + JOB_STATUS_CHK_INTVL - 1) \div JOB_STATUS_CHK_INTVL

C25_BoundedWaitTermination ==
    /\ [](\A t \in jobs :
            ~args[t].infinite_wait =>
                /\ \A T \in timeout[t] : polls[t] <= CeilIntervals(T) + 1
                /\ polls[t] <= CeilIntervals(DEFAULT_JOB_WAIT_TIMEOUT_SEC) + 1
                /\ pc[t] = "done" =>
                      \/ outcome[t].kind = "return" /\ outcome[t].value \in {"True", "False", "None"}
                      \/ outcome[t].kind = "raise" /\ outcome[t].exc # "")
    /\ \A t \in {"job"} : (t \in jobs /\ ~args[t].infinite_wait) => <>(pc[t] = "done")

\* a wait on a job that never ends, ended by the timeout
C25_Witness ==
    \E t \in jobs :
        /\ NeverTerminal(t) /\ ~args[t].infinite_wait /\ args[t].timeout = {12}
        /\ pc[t] = "done" /\ IsTimeoutOutcome(t) /\ polls[t] = 4 /\ sleeps[t] = 3

\* C26: job_wait(timeout=0, infinite_wait=False) on a job whose first snapshot
\* is not terminal declares the timeout right after the initial status request:
\* one request, no sleep.
C26_ZeroTimeout ==
    \A t \in jobs :
        (/\ args[t].timeout = {0} /\ ~args[t].infinite_wait
         /\ server[t].nPending >= 1 /\ Lower(server[t].pendingStatus) = JOB_STATUS_SUBMITTED)
        => /\ sleeps[t] = 0
           /\ polls[t] <= 1
           /\ pc[t] = "done" => IsTimeoutOutcome(t)

\* C30: 'job wait' on a job that ends 'failed' ends in error exactly when
\* --err-on-failed is given and returns normally without it; on a job that
\* ends 'completed' it returns True with or without the flag.
C30_ErrOnFailedFlag ==
    \A t \in jobs :
        (cmdwait.pc = "done" /\ json_result[t].kind = "meta") =>
            /\ Lower(json_result[t].status) = JOB_STATUS_FAILED =>
                   (cmdwait.result.kind = "raise" <=> cmdwait.err_on_failed)
            /\ Lower(json_result[t].status) = JOB_STATUS_COMPLETED =>
                   cmdwait.result = CmdReturn("True")

\* the answer of the authorization endpoint is a token Json
Granted(resp) ==
    /\ resp.kind = "json" /\ resp.status = 200 /\ ~resp.json.empty
    /\ resp.json.access_token # None
    /\ resp.json.scope = "mix-api" /\ resp.json.token_type = "bearer"

\* C24: on a handler with a client credential, a status request of a wait made
\* when the cached token is past its expires_at (or when there is none) makes
\* exactly one exchange before the request; when the exchange is granted the new
\* token is cached and used and the wait goes on with the server's answer as it
\* would without the exchange; a status request made while the cached token
\* is not expired makes no exchange and uses the cached token.
C24_TokenRefreshDuringWait ==
    [][\A t \in jobs :
         polls'[t] = polls[t] + 1 =>
            LET expired == \/ _token_clientauth = None
                           \/ \E k \in _token_clientauth : now > k.expires_at
                answer == check_job_status(t, polls'[t])
            IN  /\ last'.op = "request"
                /\ expired =>
                      /\ last'.exchanges = 1
                      /\ Granted(last'.resp) =>
                            /\ last'.exc = ""
                            /\ last'.value = last'.resp.json.access_token
                            /\ \E k \in _token_clientauth' :
                                  /\ {k.access_token} = last'.value
                                  /\ k.expires_at > now
                            /\ IF answer.kind = "raise"
                               THEN /\ pc'[t] = "done"
                                    /\ outcome'[t].exc = IF polls[t] = 0 THEN "ValueError" ELSE answer.exc
                               ELSE /\ pc'[t] = "check"
                                    /\ json_result'[t] = answer
                                    /\ outcome'[t] = outcome[t]
                /\ ~expired =>
                      /\ last'.exchanges = 0
                      /\ last'.exc = ""
                      /\ _token_clientauth' = _token_clientauth
                      /\ \E k \in _token_clientauth : last'.value = {k.access_token}]_vars

\* the second status request of a wait that began with a token not yet expired
\* finds it expired and is sent with the token of a granted exchange
C24_Witness ==
    \E t \in jobs :
        /\ polls[t] = 2 /\ pc[t] = "check"
        /\ last.op = "request" /\ last.exchanges = 1 /\ last.exc = ""
        /\ \E k \in last.cached :
              /\ last.time > k.expires_at
              /\ last.time - time_waited[t] <= k.expires_at
        /\ \E k \in _token_clientauth : {k.access_token} = last.value

\* the last call was a config that put a client credential in the place of
\* another one while a token not yet expired was cached
ReconfiguredWithOtherCred ==
    /\ last.op = "config" /\ last.exc = ""
    /\ last.cred # None /\ _client_cred # None /\ _client_cred # last.cred
    /\ \E k \in last.cached : now <= k.expires_at

\* C27: after config has replaced the client credential of a handler that
\* holds a cached token not yet expired, the first token call makes an exchange
\* (with the new credential) and does not return the token cached for the
\* former credential.
C27_ReconfigurationInvalidatesCache ==
    [][(ReconfiguredWithOtherCred /\ last'.op = "token") =>
          /\ last'.exchanges = 1
          /\ last'.cred = _client_cred
          /\ \A k \in last.cached : last'.exc = "" => _token_clientauth' # {k}]_vars

\* the last call made an exchange that failed: the request was rejected, the
\* payload is empty, or the payload is not a token Json
ExchangeFailed ==
    /\ last.op \in {"token", "client_cred_auth"}
    /\ last.exchanges = 1
    /\ ~Granted(last.resp)

\* C28: a call whose exchange fails leaves _token_str, _token_file, the client
\* credential and the cached token as they were before the call.
C28_FailedExchangeLeavesStore ==
    ExchangeFailed =>
        /\ last.exc # ""
        /\ _client_cred = last.cred
        /\ _token_clientauth = last.cached

\* C29: the token property never returns None or an empty string: it returns
\* a token or raises, also on a handler that was never configured, and no
\* request is sent with a header made from None.
C29_TokenNeverNone ==
    (last.op \in {"token", "request"} /\ last.exc = "") =>
        /\ last.value # None
        /\ last.value # {<<>>}

====
